---- MODULE Spec2Model ----
(***************************************************************************)
(* The ReelScript gateway (server.js): a Node.js process that spawns the   *)
(* Python backend, polls its health endpoint, then binds one HTTP listener *)
(* that serves /videos/ from disk with Range support, proxies /api/ and    *)
(* the /ws upgrade to the backend, and hands everything else to the        *)
(* SvelteKit handler.                                                      *)
(*                                                                         *)
(* Strings are sequences of tokens.  A token is one character ("/", ".",   *)
(* "%", "-", a digit, "v", "x", "?") or a fixed multi-character piece that *)
(* is never split ("videos", "api", "ws", "bytes=", "data", "mp4",         *)
(* "http://127.0.0.1:", and "2F", the two hexadecimal digits of the escape *)
(* %2F).                                                                   *)
(* JavaScript numbers are records [nan, n], so that NaN is a value.        *)
(*                                                                         *)
(* Spec is the gateway as a whole.  SpecETag, SpecPorts, SpecProxy and     *)
(* SpecMime each apply one function of it (the entity tag, the derived     *)
(* ports, http-proxy's passes, the content type) to arguments drawn into   *)
(* `input`, leaving the result in `output`.  SpecLive is Spec with the     *)
(* event loop's fairness.  SpecStreams, SpecAbort and SpecReplace serve    *)
(* /videos/v to two clients at once, to clients that disconnect, and while *)
(* the file is replaced; their connections are kept in `output`.           *)
(***************************************************************************)
EXTENDS Integers, Sequences, FiniteSets, TLC

\* ---------------------------------------------------------------- bounds
\* longest file name (in tokens) a /videos/ request carries
MaxName == 2
\* largest number written in a Range header
MaxByte == 2
\* bytes one read of a file stream delivers (highWaterMark, scaled down)
ChunkSize == 1

\* largest port of the run 0..MaxPort that PORT is drawn from
MaxPort == 99

\* longest file name (in tokens) whose Content-Type is looked up
MaxTypedName == 3

\* most streams a run leaves without a reader before it stops disconnecting
MaxPaused == 2

\* ------------------------------------------------------- program constants
\* waitForBackend(maxRetries = 30)
MaxRetries == 30

\* ------------------------------------------------------------ JS numbers
Num(n) == [nan |-> FALSE, n |-> n]
NaN == [nan |-> TRUE, n |-> 0]

\* a + b as JavaScript computes it: NaN if either operand is NaN
Plus(a, b) == IF a.nan \/ b.nan THEN NaN ELSE Num(a.n + b.n)

\* end - start + 1 as JavaScript computes it: NaN if either operand is NaN
SpanLength(start, end) ==
    IF start.nan \/ end.nan THEN NaN ELSE Num(end.n - start.n + 1)

\* ------------------------------------------------------------ JS strings
Digits == <<"0", "1", "2", "3", "4", "5", "6", "7", "8", "9">>

IsDigit(t) == \E d \in 1..Len(Digits) : Digits[d] = t

DigitValue(t) == (CHOOSE d \in 1..Len(Digits) : Digits[d] = t) - 1

\* Number.prototype.toString(10) of a natural number
RECURSIVE ToDecimal(_)
ToDecimal(n) ==
    IF n < 10 THEN <<Digits[n + 1]>>
    ELSE ToDecimal(n \div 10) \o <<Digits[(n % 10) + 1]>>

\* `${x}` of a number: "NaN", or the decimal with its sign
NumToString(x) ==
    IF x.nan THEN <<"NaN">>
    ELSE IF x.n < 0 THEN <<"-">> \o ToDecimal(0 - x.n)
    ELSE ToDecimal(x.n)

\* Number.prototype.toString(36) of a natural number
Base36Digits ==
    Digits \o <<"a", "b", "c", "d", "e", "f", "g", "h", "i", "j", "k", "l", "m",
                "n", "o", "p", "q", "r", "s", "t", "u", "v", "w", "x", "y", "z">>

RECURSIVE ToBase36(_)
ToBase36(n) ==
    IF n < 36 THEN <<Base36Digits[n + 1]>>
    ELSE ToBase36(n \div 36) \o <<Base36Digits[(n % 36) + 1]>>

\* String.prototype.startsWith
StartsWith(s, p) == Len(s) >= Len(p) /\ SubSeq(s, 1, Len(p)) = p

\* String.prototype.indexOf, 1-based; 0 when p does not occur in s
IndexOf(s, p) ==
    LET hits == {i \in 1..(Len(s) - Len(p) + 1) : SubSeq(s, i, i + Len(p) - 1) = p}
    IN  IF hits = {} THEN 0 ELSE CHOOSE i \in hits : \A j \in hits : i <= j

\* String.prototype.includes
Includes(s, p) == IndexOf(s, p) # 0

\* String.prototype.replace(p, ''): the first occurrence of p removed
RemoveFirst(s, p) ==
    LET i == IndexOf(s, p)
    IN  IF i = 0 THEN s
        ELSE SubSeq(s, 1, i - 1) \o SubSeq(s, i + Len(p), Len(s))

\* String.prototype.split(sep), sep one token
RECURSIVE Split(_, _)
Split(s, sep) ==
    LET i == IndexOf(s, <<sep>>)
    IN  IF i = 0 THEN <<s>>
        ELSE <<SubSeq(s, 1, i - 1)>> \o Split(SubSeq(s, i + 1, Len(s)), sep)

\* parseInt(s, 10): an optional sign, then the value of the longest prefix of
\* digits; NaN if there is no digit there
RECURSIVE DigitsValue(_, _)
DigitsValue(s, acc) ==
    IF s = <<>> \/ ~IsDigit(Head(s)) THEN acc
    ELSE DigitsValue(Tail(s), acc * 10 + DigitValue(Head(s)))

parseInt(s) ==
    LET signed == s # <<>> /\ Head(s) \in {"-", "+"}
        t == IF signed THEN Tail(s) ELSE s
    IN  IF t = <<>> \/ ~IsDigit(Head(t)) THEN NaN
        ELSE IF signed /\ Head(s) = "-" THEN Num(0 - DigitsValue(t, 0))
        ELSE Num(DigitsValue(t, 0))

\* decodeURIComponent.  "%" must be followed by two hexadecimal digits that
\* start a valid UTF-8 sequence; of the tokens of this model only "2F" is a
\* pair of hexadecimal digits, and %2F is "/".  Everything else after "%"
\* ("%v", "%.", "%/", "%%", "%" at the end) raises URIError.
RECURSIVE decodeURIComponent(_)
decodeURIComponent(s) ==
    IF s = <<>> THEN [ok |-> TRUE, s |-> <<>>]
    ELSE IF Head(s) = "%"
         THEN IF Len(s) >= 2 /\ s[2] = "2F"
              THEN LET rest == decodeURIComponent(SubSeq(s, 3, Len(s)))
                   IN  [ok |-> rest.ok, s |-> <<"/">> \o rest.s]
              ELSE [ok |-> FALSE, s |-> <<>>]
         ELSE LET rest == decodeURIComponent(Tail(s))
              IN  [ok |-> rest.ok, s |-> <<Head(s)>> \o rest.s]

\* ------------------------------------------------------------------ paths
\* A path is a sequence of segments below import.meta.dirname; a segment is
\* a string.
RECURSIVE Normalize(_, _)
Normalize(segs, acc) ==
    IF segs = <<>> THEN acc
    ELSE LET h == Head(segs)
         IN  IF h = <<>> \/ h = <<".">> THEN Normalize(Tail(segs), acc)
             ELSE IF h = <<".", ".">>
                  THEN Normalize(Tail(segs),
                                 IF acc = <<>> THEN acc
                                 ELSE SubSeq(acc, 1, Len(acc) - 1))
                  ELSE Normalize(Tail(segs), Append(acc, h))

\* path.join(dir, name) (POSIX): split at "/", drop "" and ".", resolve ".."
join(dir, name) == Normalize(dir \o Split(name, "/"), <<>>)

\* const VIDEOS_DIR = join(import.meta.dirname, 'data', 'videos')
VIDEOS_DIR == <<<<"data">>, <<"videos">>>>

\* the position of the last "." of s, 0 if there is none
LastDot(s) ==
    LET dots == {i \in 1..Len(s) : s[i] = "."}
    IN  IF dots = {} THEN 0 ELSE CHOOSE i \in dots : \A j \in dots : j <= i

\* path.extname: from the last "." of the base name to its end; "" when there
\* is no ".", when the only "." starts the base name, or for ".."
extname(name) ==
    LET parts == Split(name, "/")
        base == parts[Len(parts)]
        d == LastDot(base)
    IN  IF d = 0 \/ d = 1 \/ base = <<".", ".">> THEN <<>>
        ELSE SubSeq(base, d, Len(base))

\* the table looked up without regard to the case of the extension
contentTypeOf_CaseFolded(name) ==
    LET ext == extname(name)
    IN  IF ext \in {<<".", "mp4">>, <<".", "MP4">>} THEN "video/mp4"
        ELSE IF ext = <<".", "webm">> THEN "video/webm"
        ELSE IF ext = <<".", "mp3">> THEN "audio/mpeg"
        ELSE "application/octet-stream"

\* const mimeTypes = {...}; mimeTypes[ext] || 'application/octet-stream'
contentTypeOf(name) ==
    LET ext == extname(name)
    IN  IF ext = <<".", "mp4">> THEN "video/mp4"
        ELSE IF ext = <<".", "webm">> THEN "video/webm"
        ELSE IF ext = <<".", "mp3">> THEN "audio/mpeg"
        ELSE "application/octet-stream"

\* ------------------------------------------------------------- file system
\* What statSync and createReadStream see.  The media directory holds the
\* file "v" (two bytes), the empty file "vv" and the subdirectory "2F" with
\* a file "v" in it; a file "v" also lies next to the media directory.
File(bytes, mtime) ==
    [type |-> "file", size |-> Len(bytes), mtimeMs |-> mtime, bytes |-> bytes]

Dir(mtime) == [type |-> "dir", size |-> 4, mtimeMs |-> mtime, bytes |-> <<>>]

Disk ==
    LET D == <<"data">>
        V == <<"videos">>
    IN  (<<>> :> Dir(40)) @@ (<<D>> :> Dir(41)) @@ (<<D, V>> :> Dir(42))
        @@ (<<D, V, <<"v">>>> :> File(<<11, 12>>, 50))
        @@ (<<D, V, <<"v", "v">>>> :> File(<<>>, 51))
        @@ (<<D, V, <<"2F">>>> :> Dir(43))
        @@ (<<D, V, <<"2F">>, <<"v">>>> :> File(<<21>>, 52))
        @@ (<<D, <<"v">>>> :> File(<<31, 32>>, 53))

\* ------------------------------------------------------------------ state
VARIABLES
    gw,          \* "waiting" (for readiness), "serving" or "terminated"
    exitCode,    \* <<>> while the process runs, <<code>> once it has exited
    exitBy,      \* what ended the process: "signal", "backendExit", "notReady",
                 \* or the code of the exception nothing caught
    listening,   \* the public listener is bound
    listenCalls, \* how often server.listen was called
    wfb,         \* waitForBackend: [pc, i], pc "fetch" (probe in flight) or "sleep"
    probes,      \* [ok, failed, status]: a probe was answered OK; the probes
                 \* that failed before any was; the status of the OK answer
    backend,     \* the subprocess: [proc, up, signalled, exitPending]
    spawned,     \* how often spawn was called
    fs,          \* the file system below import.meta.dirname
    conn,        \* the client connection and the response written on it
    input,       \* the arguments drawn for a function checked on its own
    output,      \* what the function made of them (<<>> before it ran)
    calls        \* what shutdown() has called, in the order of the calls

vars ==
    <<gw, exitCode, exitBy, listening, listenCalls, wfb, probes, backend,
      spawned, fs, conn, input, output, calls>>

NoHeaders ==
    [contentType |-> "", acceptRanges |-> "", etag |-> <<>>, cacheControl |-> "",
     contentRange |-> <<>>, contentLength |-> <<>>]

\* a connection on which no request has arrived
IdleConn ==
    [st |-> "idle", kind |-> "none", url |-> <<>>, range |-> <<>>,
     route |-> "none", status |-> 0, hdrs |-> NoHeaders, sent |-> FALSE,
     text |-> "", json |-> <<>>, body |-> <<>>,
     statPath |-> <<>>, stream |-> <<>>, proxyErrors |-> 0]

\* ---------------------------------------------------------------- inputs
NameTokens == {"v", ".", "/", "%", "2F"}

SeqsUpTo(S, n) == UNION {[1..k -> S] : k \in 0..n}

Names == SeqsUpTo(NameTokens, MaxName)

VideoPrefix == <<"/", "videos", "/">>

ApiPrefix == <<"/", "api", "/">>

OtherUrls ==
    {<<"/">>, <<"/", "v">>, <<"/", "videos">>, <<"/", "api">>,
     <<"/", "api", "/">>, <<"/", "api", "/", "v">>,
     <<"/", "ws">>, <<"/", "ws", "/">>, <<"/", "ws", "?", "v">>,
     <<"/", "videos", "/", "api", "/", "v">>}

VideoUrls == {VideoPrefix \o n : n \in Names}

Urls == VideoUrls \cup OtherUrls

UpgradeUrls == OtherUrls \cup {VideoPrefix \o <<"v">>}

\* the numbers of a Range header as written: a decimal, nothing, or no number
NumStrs == {ToDecimal(n) : n \in 0..MaxByte} \cup {<<>>, <<"x">>}

\* the Range header values; <<>> is a request without the header
Ranges == {<<>>} \cup {<<"bytes=">> \o a \o <<"-">> \o b : a, b \in NumStrs}

\* what a probe of /api/health can come back with
ProbeStatuses == {200, 204, 503}

\* err: the fetch was rejected (no connection); otherwise the status answered
ProbeOutcomes ==
    {[err |-> TRUE, status |-> 0]}
        \cup {[err |-> FALSE, status |-> st] : st \in ProbeStatuses}

\* Response.ok
ResOk(status) == status >= 200 /\ status <= 299

\* ---------------------------------------------------------- the video server
\* the two numbers written one after the other, with nothing between them
etagOf_Unseparated(stat) == <<"\"">> \o ToBase36(stat.mtimeMs) \o ToBase36(stat.size) \o <<"\"">>

\* `"${stat.mtimeMs.toString(36)}-${stat.size.toString(36)}"`
etagOf(stat) == <<"\"">> \o ToBase36(stat.mtimeMs) \o <<"-">> \o ToBase36(stat.size) \o <<"\"">>

cacheHeaders(name, stat) ==
    [NoHeaders EXCEPT !.contentType = contentTypeOf(name),
                      !.acceptRanges = "bytes",
                      !.etag = etagOf(stat),
                      !.cacheControl = "public, max-age=3600"]

\* range.replace(/bytes=/, '').split('-')
rangeParts(range) == Split(RemoveFirst(range, <<"bytes=">>), "-")

rangeStart(range) == parseInt(rangeParts(range)[1])

\* the end of the range taken as exclusive
rangeEnd_Exclusive(range, size) ==
    LET parts == rangeParts(range)
        end == parseInt(parts[2])
    IN  IF Len(parts) >= 2 /\ parts[2] # <<>>
        THEN (IF end.nan THEN NaN ELSE Num(end.n - 1))
        ELSE Num(size - 1)

\* the end that is left out taken as the size of the file
rangeEnd_OpenIsSize(range, size) ==
    LET parts == rangeParts(range)
    IN  IF Len(parts) >= 2 /\ parts[2] # <<>> THEN parseInt(parts[2])
        ELSE Num(size)

\* parts[1] ? parseInt(parts[1], 10) : stat.size - 1
rangeEnd(range, size) ==
    LET parts == rangeParts(range)
    IN  IF Len(parts) >= 2 /\ parts[2] # <<>> THEN parseInt(parts[2])
        ELSE Num(size - 1)

\* new ReadStream(path, {start, end}) validates its options and throws
\* ERR_OUT_OF_RANGE for a start or end that is no integer >= 0 and for
\* start > end
ReadStreamThrows(start, end) ==
    \/ start.nan \/ end.nan
    \/ start.n < 0 \/ end.n < 0
    \/ start.n > end.n

\* res.writeHead(status); res.end(text)
EndWith(c, status, text) ==
    [c EXCEPT !.status = status, !.sent = TRUE, !.text = text, !.st = "done"]

\* const filename = decodeURIComponent(req.url.replace('/videos/', ''))
videoFilename(url) == decodeURIComponent(RemoveFirst(url, VideoPrefix))

\* the validation without the test for "/"
invalidName_DotsOnly(filename) == Includes(filename, <<".", ".">>)

\* filename.includes('..') || filename.includes('/')
invalidName(filename) ==
    Includes(filename, <<".", ".">>) \/ Includes(filename, <<"/">>)

\* the catch block answering like the validation above it
notFound_AsBadRequest(c) == EndWith(c, 400, "Bad request")

\* catch { res.writeHead(404); res.end('Not found'); return; }
notFound(c) == EndWith(c, 404, "Not found")

\* `bytes ${start}-${end}/${stat.size}`
contentRangeOf(start, end, size) ==
    <<"bytes", " ">> \o NumToString(start) \o <<"-">> \o NumToString(end)
        \o <<"/">> \o NumToString(size)

\* the partial response written without the cache headers
partialHead_NoCacheHeaders(c, hdrs, start, end, size) ==
    [c EXCEPT !.status = 206, !.sent = TRUE,
              !.hdrs = [NoHeaders EXCEPT
                  !.contentRange = contentRangeOf(start, end, Num(size)),
                  !.contentLength = <<SpanLength(start, end)>>]]

\* res.writeHead(206, {...cacheHeaders, 'Content-Range': ..., 'Content-Length': ...})
partialHead(c, hdrs, start, end, size) ==
    [c EXCEPT !.status = 206, !.sent = TRUE,
              !.hdrs = [hdrs EXCEPT
                  !.contentRange = contentRangeOf(start, end, Num(size)),
                  !.contentLength = <<SpanLength(start, end)>>]]

\* the full response declaring the last offset instead of the size
fullHead_LastOffset(c, hdrs, size) ==
    [c EXCEPT !.status = 200, !.sent = TRUE,
              !.hdrs = [hdrs EXCEPT !.contentLength = <<Num(size - 1)>>]]

\* res.writeHead(200, {...cacheHeaders, 'Content-Length': stat.size})
fullHead(c, hdrs, size) ==
    [c EXCEPT !.status = 200, !.sent = TRUE,
              !.hdrs = [hdrs EXCEPT !.contentLength = <<Num(size)>>]]

\* createReadStream(filePath, {start, end}).pipe(res), once the stream exists
Piping(c, path, pos, last) ==
    [c EXCEPT !.st = "streaming",
              !.stream = <<[path |-> path, pos |-> pos, last |-> last]>>]

\* function serveVideo(req, res): [err, conn], err the code of the exception
\* that leaves the function ("" if none), conn what it did to the response
serveVideo(c, disk) ==
    LET decoded == videoFilename(c.url)
        filename == decoded.s
        filePath == join(VIDEOS_DIR, filename)
        looked == [c EXCEPT !.statPath = <<filePath>>]
    IN  IF ~decoded.ok THEN [err |-> "URIError", conn |-> c]
        ELSE IF invalidName(filename)
        THEN [err |-> "", conn |-> EndWith(c, 400, "Bad request")]
        ELSE IF filePath \notin DOMAIN disk
        THEN [err |-> "", conn |-> notFound(looked)]
        ELSE LET stat == disk[filePath]
                 hdrs == cacheHeaders(filename, stat)
             IN  IF c.range # <<>>
                 THEN LET start == rangeStart(c.range)
                          end == rangeEnd(c.range, stat.size)
                          head == partialHead(looked, hdrs, start, end, stat.size)
                      IN  IF ReadStreamThrows(start, end)
                          THEN [err |-> "ERR_OUT_OF_RANGE", conn |-> head]
                          ELSE [err |-> "",
                                conn |-> Piping(head, filePath, start.n, <<end.n>>)]
                 ELSE [err |-> "",
                       conn |-> Piping(fullHead(looked, hdrs, stat.size),
                                       filePath, 0, <<>>)]

\* ------------------------------------------------------------ the process
\* process.exit(code): the process is gone, and its listener and its
\* connections with it
Exit(code, by) ==
    /\ gw' = "terminated"
    /\ exitCode' = <<code>>
    /\ exitBy' = by
    /\ listening' = FALSE
    /\ conn' = IdleConn

\* an exception nothing catches ends the process with exit code 1
Uncaught(err) == Exit(1, err)

Started ==
    /\ gw = "waiting"
    /\ exitCode = <<>>
    /\ exitBy = "none"
    /\ listening = FALSE
    /\ listenCalls = 0
    /\ wfb = [pc |-> "fetch", i |-> 0]
    /\ probes = [ok |-> FALSE, failed |-> 0, status |-> 0]
    /\ backend = [proc |-> "running", up |-> FALSE, signalled |-> FALSE,
                  exitPending |-> FALSE]
    /\ spawned = 1
    /\ fs = Disk
    /\ conn = IdleConn
    /\ calls = <<>>

Init ==
    /\ Started
    /\ input = <<>>
    /\ output = <<>>

\* OnReady without the test of ready: the listener is bound in any case
OnReady_Unchecked(ready) ==
    /\ gw' = "serving"
    /\ listening' = TRUE
    /\ listenCalls' = listenCalls + 1
    /\ UNCHANGED <<exitCode, exitBy, conn>>

\* OnReady with process.exit(0) for a backend that never got ready
OnReady_ExitZero(ready) ==
    IF ~ready
    THEN /\ Exit(0, "notReady")
         /\ UNCHANGED listenCalls
    ELSE /\ gw' = "serving"
         /\ listening' = TRUE
         /\ listenCalls' = listenCalls + 1
         /\ UNCHANGED <<exitCode, exitBy, conn>>

\* waitForBackend().then((ready) => {...})
OnReady(ready) ==
    IF ~ready
    THEN /\ Exit(1, "notReady")
         /\ UNCHANGED listenCalls
    ELSE /\ gw' = "serving"
         /\ listening' = TRUE
         /\ listenCalls' = listenCalls + 1
         /\ UNCHANGED <<exitCode, exitBy, conn>>

\* One probe of waitForBackend is answered: const res = await fetch(...);
\* if (res.ok) return true; a rejected fetch is caught.  The backend answers
\* only while it listens; a connection can fail at any time.
FetchHealth(outcome) ==
    /\ gw = "waiting"
    /\ wfb.pc = "fetch"
    /\ ~outcome.err => backend.up
    /\ IF ~outcome.err /\ ResOk(outcome.status)
       THEN /\ probes' = [ok |-> TRUE, failed |-> 0, status |-> outcome.status]
            /\ wfb' = [pc |-> "done", i |-> 0]
            /\ OnReady(TRUE)
       ELSE /\ probes' = [probes EXCEPT !.failed = @ + 1]
            /\ wfb' = [wfb EXCEPT !.pc = "sleep"]
            /\ UNCHANGED <<gw, exitCode, exitBy, listening, listenCalls, conn>>
    /\ UNCHANGED <<backend, spawned, fs, input, output, calls>>

\* the loop test taken as i <= maxRetries
TimerFires_Inclusive ==
    /\ gw = "waiting"
    /\ wfb.pc = "sleep"
    /\ IF wfb.i + 1 <= MaxRetries
       THEN /\ wfb' = [pc |-> "fetch", i |-> wfb.i + 1]
            /\ UNCHANGED <<gw, exitCode, exitBy, listening, listenCalls, conn>>
       ELSE /\ wfb' = [pc |-> "done", i |-> 0]
            /\ OnReady(FALSE)
    /\ UNCHANGED <<probes, backend, spawned, fs, input, output, calls>>

\* await new Promise((r) => setTimeout(r, 1000)) ends: i++, and the loop
\* either probes again or is left with return false
TimerFires ==
    /\ gw = "waiting"
    /\ wfb.pc = "sleep"
    /\ IF wfb.i + 1 < MaxRetries
       THEN /\ wfb' = [pc |-> "fetch", i |-> wfb.i + 1]
            /\ UNCHANGED <<gw, exitCode, exitBy, listening, listenCalls, conn>>
       ELSE /\ wfb' = [pc |-> "done", i |-> 0]
            /\ OnReady(FALSE)
    /\ UNCHANGED <<probes, backend, spawned, fs, input, output, calls>>

\* shutdown that signals the backend and leaves the exit to a later step
shutdown_KillOnly ==
    /\ gw # "terminated"
    /\ ~backend.signalled
    /\ backend' = [backend EXCEPT !.signalled = TRUE]
    /\ UNCHANGED <<gw, exitCode, exitBy, listening, listenCalls, wfb, probes,
                   spawned, fs, conn, input, output, calls>>

\* The statements of shutdown() act on the signal sent to the backend, on
\* the listener and on the process; after process.exit nothing runs.
ShutdownStart ==
    [signalled |-> backend.signalled, listening |-> listening,
     exited |-> FALSE, calls |-> <<>>]

\* backend.kill('SIGTERM')
killBackend(p) ==
    IF p.exited THEN p
    ELSE [p EXCEPT !.signalled = TRUE, !.calls = Append(@, "backend.kill")]

\* server.close()
closeServer(p) ==
    IF p.exited THEN p
    ELSE [p EXCEPT !.listening = FALSE, !.calls = Append(@, "server.close")]

\* process.exit(0)
exitProcess(p) ==
    IF p.exited THEN p
    ELSE [p EXCEPT !.exited = TRUE, !.calls = Append(@, "process.exit")]

\* shutdown with process.exit(0) as its first statement
shutdown_ExitFirst ==
    /\ gw # "terminated"
    /\ LET p == killBackend(closeServer(exitProcess(ShutdownStart)))
       IN  /\ backend' = [backend EXCEPT !.signalled = p.signalled]
           /\ calls' = p.calls
           /\ Exit(0, "signal")
    /\ UNCHANGED <<listenCalls, wfb, probes, spawned, fs, input, output>>

\* function shutdown(), on SIGINT and on SIGTERM: one listener run, which
\* nothing interrupts
shutdown ==
    /\ gw # "terminated"
    /\ LET p == exitProcess(closeServer(killBackend(ShutdownStart)))
       IN  /\ backend' = [backend EXCEPT !.signalled = p.signalled]
           /\ calls' = p.calls
           /\ Exit(0, "signal")
    /\ UNCHANGED <<listenCalls, wfb, probes, spawned, fs, input, output>>

\* the 'exit' listener without process.exit(1): it only logs
OnBackendExit_LogOnly ==
    /\ gw # "terminated"
    /\ backend.exitPending
    /\ backend' = [backend EXCEPT !.exitPending = FALSE]
    /\ UNCHANGED <<gw, exitCode, exitBy, listening, listenCalls, wfb, probes,
                   spawned, fs, conn, input, output, calls>>

\* the 'exit' listener starting the backend again instead of exiting
OnBackendExit_Respawn ==
    /\ gw # "terminated"
    /\ backend.exitPending
    /\ backend' = [backend EXCEPT !.proc = "running", !.exitPending = FALSE]
    /\ spawned' = spawned + 1
    /\ UNCHANGED <<gw, exitCode, exitBy, listening, listenCalls, wfb, probes,
                   fs, conn, input, output, calls>>

\* backend.on('exit', ...)
OnBackendExit ==
    /\ gw # "terminated"
    /\ backend.exitPending
    /\ backend' = [backend EXCEPT !.exitPending = FALSE]
    /\ Exit(1, "backendExit")
    /\ UNCHANGED <<listenCalls, wfb, probes, spawned, fs, input, output, calls>>

\* ------------------------------------------------- the backend subprocess
\* backend/main.py is not part of the gateway: it starts to listen, stops
\* answering, or exits, whenever it does.
BackendListens ==
    /\ gw # "terminated"
    /\ backend.proc = "running" /\ ~backend.up
    /\ backend' = [backend EXCEPT !.up = TRUE]
    /\ UNCHANGED <<gw, exitCode, exitBy, listening, listenCalls, wfb, probes,
                   spawned, fs, conn, input, output, calls>>

BackendUnreachable ==
    /\ gw # "terminated"
    /\ backend.proc = "running" /\ backend.up
    /\ backend' = [backend EXCEPT !.up = FALSE]
    /\ UNCHANGED <<gw, exitCode, exitBy, listening, listenCalls, wfb, probes,
                   spawned, fs, conn, input, output, calls>>

BackendDies ==
    /\ gw # "terminated"
    /\ backend.proc = "running"
    /\ backend' = [backend EXCEPT !.proc = "exited", !.up = FALSE,
                                  !.exitPending = TRUE]
    /\ UNCHANGED <<gw, exitCode, exitBy, listening, listenCalls, wfb, probes,
                   spawned, fs, conn, input, output, calls>>

\* the backend ends on the SIGTERM of shutdown; the gateway has exited by
\* then, so the 'exit' event finds no listener to run
BackendTerminated ==
    /\ gw = "terminated"
    /\ backend.signalled /\ backend.proc = "running"
    /\ backend' = [backend EXCEPT !.proc = "exited", !.up = FALSE,
                                  !.exitPending = TRUE]
    /\ UNCHANGED <<gw, exitCode, exitBy, listening, listenCalls, wfb, probes,
                   spawned, fs, conn, input, output, calls>>

\* ------------------------------------------------------------- the router
\* the handler answering 502 on whatever it is handed, socket included
proxyOnError_AnyRes(c) ==
    IF c.sent THEN [err |-> "ERR_HTTP_HEADERS_SENT", conn |-> c]
    ELSE [err |-> "",
          conn |-> [c EXCEPT !.status = 502, !.sent = TRUE,
                             !.hdrs = [NoHeaders EXCEPT !.contentType = "application/json"],
                             !.json = <<<<"error", "Backend unavailable">>>>,
                             !.st = "done"]]

\* proxy.on('error', (err, _req, res) => {...}): [err, conn].  res is the
\* ServerResponse of a proxied request or the socket of a proxied upgrade;
\* only the former has writeHead, and writeHead throws ERR_HTTP_HEADERS_SENT
\* once the response head has been written.
proxyOnError(c) ==
    IF c.kind = "request"
    THEN IF c.sent THEN [err |-> "ERR_HTTP_HEADERS_SENT", conn |-> c]
         ELSE [err |-> "",
               conn |-> [c EXCEPT !.status = 502, !.sent = TRUE,
                                  !.hdrs = [NoHeaders EXCEPT !.contentType = "application/json"],
                                  !.json = <<<<"error", "Backend unavailable">>>>,
                                  !.st = "done"]]
    ELSE [err |-> "", conn |-> c]

\* the branches with the API test first, matching /api/ anywhere in the URL
routeOf_ApiAnywhere(url) ==
    IF Includes(url, ApiPrefix) THEN "proxy"
    ELSE IF StartsWith(url, VideoPrefix) THEN "video"
    ELSE "app"

\* which branch of the request listener takes the URL
routeOf(url) ==
    IF StartsWith(url, VideoPrefix) THEN "video"
    ELSE IF StartsWith(url, ApiPrefix) THEN "proxy"
    ELSE "app"

\* createServer((req, res) => {...}): one request arrives on the listener
Request(url, range) ==
    /\ gw = "serving" /\ listening
    /\ conn.st = "idle"
    /\ LET c == [IdleConn EXCEPT !.kind = "request", !.url = url, !.range = range,
                                 !.route = routeOf(url)]
           r == serveVideo(c, fs)
       IN  IF c.route = "video"
           THEN IF r.err # ""
                THEN Uncaught(r.err)
                ELSE /\ conn' = r.conn
                     /\ UNCHANGED <<gw, exitCode, exitBy, listening>>
           ELSE /\ UNCHANGED <<gw, exitCode, exitBy, listening>>
                /\ IF c.route = "proxy"
                   THEN conn' = [c EXCEPT !.st = "proxying"]
                   ELSE conn' = [c EXCEPT !.st = "done", !.status = 200, !.sent = TRUE]
    /\ UNCHANGED <<listenCalls, wfb, probes, backend, spawned, fs, input, output, calls>>

\* the upgrade path matched by prefix
isWsPath_Prefix(url) == StartsWith(url, <<"/", "ws">>)

\* req.url === '/ws'
isWsPath(url) == url = <<"/", "ws">>

\* server.on('upgrade', (req, socket, head) => {...})
Upgrade(url) ==
    /\ gw = "serving" /\ listening
    /\ conn.st = "idle"
    /\ LET c == [IdleConn EXCEPT !.kind = "upgrade", !.url = url]
       IN  IF isWsPath(url)
           THEN conn' = [c EXCEPT !.route = "ws", !.st = "proxying"]
           ELSE conn' = [c EXCEPT !.route = "destroy", !.st = "destroyed"]
    /\ UNCHANGED <<gw, exitCode, exitBy, listening, listenCalls, wfb, probes,
                   backend, spawned, fs, input, output, calls>>

\* createReadStream(...).pipe(res): the stream reads its next chunk and the
\* pipe writes it to the response; the chunk that reaches the end of the
\* range or of the file ends the response.  Reading a directory fails with
\* EISDIR, a file that is gone with ENOENT.  [err, conn] as for serveVideo.
\* Each stream has its own file descriptor and its own position.
readChunk(c, disk) ==
    LET str == c.stream[1]
        file == disk[str.path]
        hi == IF str.last = <<>> \/ str.last[1] > file.size - 1
              THEN file.size - 1 ELSE str.last[1]
        n == IF hi - str.pos + 1 > ChunkSize THEN ChunkSize ELSE hi - str.pos + 1
    IN  IF str.path \notin DOMAIN disk THEN [err |-> "ENOENT", conn |-> c]
        ELSE IF file.type = "dir" THEN [err |-> "EISDIR", conn |-> c]
        ELSE IF n <= 0
        THEN [err |-> "", conn |-> [c EXCEPT !.st = "done", !.stream = <<>>]]
        ELSE [err |-> "",
              conn |-> [c EXCEPT
                  !.body = @ \o SubSeq(file.bytes, str.pos + 1, str.pos + n),
                  !.stream = IF str.pos + n > hi THEN <<>>
                             ELSE <<[str EXCEPT !.pos = @ + n]>>,
                  !.st = IF str.pos + n > hi THEN "done" ELSE "streaming"]]

\* the next chunk of the response being streamed; the stream has no 'error'
\* listener, so a read error is an uncaught exception
StreamRead ==
    /\ gw = "serving"
    /\ conn.st = "streaming"
    /\ LET r == readChunk(conn, fs)
       IN  IF r.err # ""
           THEN Uncaught(r.err)
           ELSE /\ conn' = r.conn
                /\ UNCHANGED <<gw, exitCode, exitBy, listening>>
    /\ UNCHANGED <<listenCalls, wfb, probes, backend, spawned, fs, input, output, calls>>

\* proxy.web / proxy.ws (http-proxy): the backend's response head is relayed
ProxyResponse(status) ==
    /\ gw = "serving"
    /\ conn.st = "proxying" /\ conn.kind = "request" /\ ~conn.sent
    /\ backend.up
    /\ conn' = [conn EXCEPT !.status = status, !.sent = TRUE]
    /\ UNCHANGED <<gw, exitCode, exitBy, listening, listenCalls, wfb, probes,
                   backend, spawned, fs, input, output, calls>>

\* the backend's response has been relayed to its end
ProxyEnd ==
    /\ gw = "serving"
    /\ conn.st = "proxying" /\ conn.kind = "request" /\ conn.sent
    /\ backend.up
    /\ conn' = [conn EXCEPT !.st = "done"]
    /\ UNCHANGED <<gw, exitCode, exitBy, listening, listenCalls, wfb, probes,
                   backend, spawned, fs, input, output, calls>>

\* the connection to the backend is refused or breaks: http-proxy emits
\* 'error' and, for an upgrade, ends the client socket afterwards
ProxyError ==
    /\ gw = "serving"
    /\ conn.st = "proxying"
    /\ ~backend.up
    /\ LET r == proxyOnError([conn EXCEPT !.proxyErrors = @ + 1])
       IN  IF r.err # ""
           THEN Uncaught(r.err)
           ELSE /\ conn' = IF conn.kind = "upgrade"
                           THEN [r.conn EXCEPT !.st = "ended"]
                           ELSE r.conn
                /\ UNCHANGED <<gw, exitCode, exitBy, listening>>
    /\ UNCHANGED <<listenCalls, wfb, probes, backend, spawned, fs, input, output, calls>>

\* the exchange is over and the connection is free for the next request
ConnClose ==
    /\ gw = "serving"
    /\ conn.st \in {"done", "destroyed", "ended"}
    /\ conn' = IdleConn
    /\ UNCHANGED <<gw, exitCode, exitBy, listening, listenCalls, wfb, probes,
                   backend, spawned, fs, input, output, calls>>

Next ==
    \/ \E o \in ProbeOutcomes : FetchHealth(o)
    \/ TimerFires
    \/ shutdown
    \/ OnBackendExit
    \/ BackendListens
    \/ BackendUnreachable
    \/ BackendDies
    \/ BackendTerminated
    \/ \E u \in Urls, r \in Ranges : Request(u, r)
    \/ \E u \in UpgradeUrls : Upgrade(u)
    \/ StreamRead
    \/ \E st \in {200, 500} : ProxyResponse(st)
    \/ ProxyEnd
    \/ ProxyError
    \/ ConnClose

Spec == Init /\ [][Next]_vars

\* The event loop runs what is due: a fetch that was started settles (the
\* backend answers, the connection is refused or breaks, or, when the
\* backend accepts the connection and stays silent, fetch gives up after its
\* headers timeout and rejects), and a timer that was set fires.
SpecLive ==
    /\ Init /\ [][Next]_vars
    /\ WF_vars(\E o \in ProbeOutcomes : FetchHealth(o))
    /\ WF_vars(TimerFires)

\* --------------------------------------------- functions checked on their own
\* the program's state, which a function checked on its own leaves alone
progVars ==
    <<gw, exitCode, exitBy, listening, listenCalls, wfb, probes, backend,
      spawned, fs, conn, calls>>

\* ------------------------------------------------------ the entity tag
\* modification times and sizes a stat can return: one and two base-36
\* digits, and pairs whose digits run together when nothing separates them
\* (1 and 36 are "1" and "10", 37 and 0 are "11" and "0")
Stamps == {0, 1, 36, 37}

Sizes == {0, 1, 36}

\* a request for /videos/v, with or without a Range header, and what statSync
\* returns for the file when the request arrives
ETagInputs ==
    [stat : [mtimeMs : Stamps, size : Sizes],
     range : {<<>>, <<"bytes=", "0", "-", "0">>}]

\* the disk with data/videos/v of that modification time and size
DiskWith(stat) ==
    [Disk EXCEPT ![VIDEOS_DIR \o <<<<"v">>>>] =
        File([i \in 1..stat.size |-> 0], stat.mtimeMs)]

\* the response serveVideo writes to the request x
ETagResponse(x) ==
    serveVideo([IdleConn EXCEPT !.kind = "request",
                                !.url = VideoPrefix \o <<"v">>,
                                !.range = x.range, !.route = "video"],
               DiskWith(x.stat)).conn

\* two requests for the same file name; the file may have been replaced
\* between them
InitETag ==
    /\ Started
    /\ input \in ETagInputs \X ETagInputs
    /\ output = <<>>

ServeBoth ==
    /\ output = <<>>
    /\ output' = <<ETagResponse(input[1]), ETagResponse(input[2])>>
    /\ UNCHANGED <<progVars, input>>

NextETag == ServeBoth

SpecETag == InitETag /\ [][NextETag]_vars

\* ------------------------------------------------------------- the ports
\* the gateway ports tried
Ports == (0..MaxPort) \cup {3000, 4005, 8080, 64535, 65535}

\* what PORT can hold: a port as a decimal, or something else
PortStrs ==
    {ToDecimal(n) : n \in Ports}
        \cup {<<>>, <<"x">>, <<"8", "0", "x">>, <<"0", "0", "8", "0">>,
              <<"-", "8", "0">>}

\* process.env as far as the gateway reads or writes it: PORT and
\* REELSCRIPT_PORT, each <<>> (not set) or <<value>>
Envs ==
    [PORT : {<<>>} \cup {<<s>> : s \in PortStrs},
     REELSCRIPT_PORT : {<<>>, <<<<"9", "9">>>>}]

\* const PORT = parseInt(process.env.PORT || '4005', 10)
PORT(env) ==
    parseInt(IF env.PORT = <<>> \/ env.PORT[1] = <<>>
             THEN <<"4", "0", "0", "5">> ELSE env.PORT[1])

\* const BACKEND_PORT = PORT + 1000
BACKEND_PORT(env) == Plus(PORT(env), Num(1000))

\* const BACKEND_HOST = `http://127.0.0.1:${BACKEND_PORT}`
BACKEND_HOST(env) == <<"http://127.0.0.1:">> \o NumToString(BACKEND_PORT(env))

\* the environment of the backend with the inherited variables written last
spawnEnv_EnvLast(env) ==
    IF env.REELSCRIPT_PORT # <<>> THEN env
    ELSE [env EXCEPT !.REELSCRIPT_PORT = <<NumToString(BACKEND_PORT(env))>>]

\* env: { ...process.env, REELSCRIPT_PORT: String(BACKEND_PORT) }
spawnEnv(env) ==
    [env EXCEPT !.REELSCRIPT_PORT = <<NumToString(BACKEND_PORT(env))>>]

\* httpProxy.createProxyServer({ target: BACKEND_HOST, ... })
proxyTarget(env) == BACKEND_HOST(env)

\* `${BACKEND_HOST}/api/health`
healthUrl(env) == BACKEND_HOST(env) \o <<"/", "api", "/", "health">>

InitPorts ==
    /\ Started
    /\ input \in Envs
    /\ output = <<>>

\* the module top level: the proxy is created and the backend spawned
Configure ==
    /\ output = <<>>
    /\ output' = [target |-> proxyTarget(input), spawnEnv |-> spawnEnv(input),
                  probed |-> <<>>]
    /\ UNCHANGED <<progVars, input>>

\* a probe of waitForBackend is sent
ProbeSent ==
    /\ output # <<>>
    /\ output' = [output EXCEPT !.probed = <<healthUrl(input)>>]
    /\ UNCHANGED <<progVars, input>>

NextPorts == Configure \/ ProbeSent

SpecPorts == InitPorts /\ [][NextPorts]_vars

\* ------------------------------------------------------- the proxied exchange
\* proxy.web(req, res) of http-proxy with the options of createProxyServer
\* ({ target: BACKEND_HOST, ws: true, changeOrigin: true }, no agent).  A
\* header is <<>> (not sent) or <<value>>; "x" stands for every header the
\* proxy has no rule for.
ClientRequests ==
    {[httpVersion |-> hv, method |-> m, url |-> ApiPrefix \o <<"v">>,
      headers |-> [host |-> <<h>>, connection |-> c, contentLength |-> cl,
                   x |-> <<"1">>],
      body |-> IF cl = <<>> \/ cl = <<"0">> THEN <<>> ELSE <<7>>] :
        hv \in {"1.0", "1.1"}, m \in {"GET", "POST", "DELETE"},
        h \in {<<"example.org">>, <<"127.0.0.1:", "5", "0", "0", "5">>},
        c \in {<<>>, <<"keep-alive">>}, cl \in {<<>>, <<"1">>}}

BackendResponses ==
    {[status |-> st, headers |-> [connection |-> c, x |-> <<"2">>], body |-> b] :
        st \in {200, 404}, c \in {<<>>, <<"close">>}, b \in {<<>>, <<8>>}}

\* the environment the gateway runs in here: PORT is not set
DefaultEnv == [PORT |-> <<>>, REELSCRIPT_PORT |-> <<>>]

\* host:port of the proxy target
targetHost(env) == <<"127.0.0.1:">> \o NumToString(BACKEND_PORT(env))

\* web-incoming deleteLength: a DELETE or OPTIONS request without
\* Content-Length gets Content-Length: 0
deleteLength(req) ==
    IF req.method \in {"DELETE", "OPTIONS"} /\ req.headers.contentLength = <<>>
    THEN [req EXCEPT !.headers.contentLength = <<"0">>]
    ELSE req

\* the outgoing request with the client's Host header left as it came
setupOutgoing_KeepOrigin(req, env) ==
    [method |-> req.method, url |-> req.url, body |-> req.body,
     headers |-> [req.headers EXCEPT !.connection = <<"close">>]]

\* common.setupOutgoing: method, path and headers are the client's;
\* without an agent Connection is set to close; changeOrigin sets Host to
\* the target's host:port.  The body is piped through (req.pipe(proxyReq)).
setupOutgoing(req, env) ==
    [method |-> req.method, url |-> req.url, body |-> req.body,
     headers |-> [req.headers EXCEPT !.connection = <<"close">>,
                                     !.host = <<targetHost(env)>>]]

\* web-outgoing setConnection, writeHeaders, writeStatusCode, and
\* proxyRes.pipe(res): the backend's response as the client gets it
relayResponse(req, proxyRes) ==
    LET asked == IF req.headers.connection # <<>> THEN req.headers.connection
                 ELSE IF req.httpVersion = "1.0" THEN <<"close">>
                 ELSE <<"keep-alive">>
    IN  IF req.httpVersion = "1.0" \/ proxyRes.headers.connection = <<>>
        THEN [proxyRes EXCEPT !.headers.connection = asked]
        ELSE proxyRes

InitProxy ==
    /\ Started
    /\ input \in [req : ClientRequests, res : BackendResponses]
    /\ output = <<>>

\* proxy.web sends the request on to the backend
ProxyForward ==
    /\ output = <<>>
    /\ output' = [forwarded |-> setupOutgoing(deleteLength(input.req), DefaultEnv),
                  relayed |-> <<>>]
    /\ UNCHANGED <<progVars, input>>

\* the backend has answered and the answer is written to the client
ProxyRelay ==
    /\ output # <<>> /\ output.relayed = <<>>
    /\ output' = [output EXCEPT !.relayed = <<relayResponse(input.req, input.res)>>]
    /\ UNCHANGED <<progVars, input>>

NextProxy == ProxyForward \/ ProxyRelay

SpecProxy == InitProxy /\ [][NextProxy]_vars

\* ------------------------------------------------------- the content type
\* file names with and without the extensions of the table
TypedNames == SeqsUpTo({"v", ".", "mp4", "webm", "mp3", "MP4"}, MaxTypedName)

\* the disk with a file of that name in the media directory, unless the
\* name resolves to something that is there already
DiskHolding(name) ==
    LET path == join(VIDEOS_DIR, name)
    IN  IF path \in DOMAIN Disk THEN Disk
        ELSE Disk @@ (path :> File(<<1>>, 60))

InitMime ==
    /\ Started
    /\ input \in TypedNames
    /\ output = <<>>

\* GET /videos/<name>, without a Range header
ServeNamed ==
    /\ output = <<>>
    /\ output' = <<serveVideo([IdleConn EXCEPT !.kind = "request",
                                               !.url = VideoPrefix \o input,
                                               !.route = "video"],
                              DiskHolding(input)).conn>>
    /\ UNCHANGED <<progVars, input>>

NextMime == ServeNamed

SpecMime == InitMime /\ [][NextMime]_vars

\* ------------------------------------------------- two streams of one file
\* Two clients ask for ranges of the same file; their requests and the reads
\* of their streams come in any order.
StreamedBytes == [i \in 1..(MaxByte + 1) |-> 10 + i]

StreamDisk ==
    [Disk EXCEPT ![VIDEOS_DIR \o <<<<"v">>>>] = File(StreamedBytes, 50)]

\* <<A, B>> of the Range header bytes=A-B, within the file
ClientRanges == {r \in (0..MaxByte) \X (0..MaxByte) : r[1] <= r[2]}

RangeRequest(r) ==
    [IdleConn EXCEPT !.kind = "request", !.url = VideoPrefix \o <<"v">>,
                     !.route = "video",
                     !.range = <<"bytes=">> \o ToDecimal(r[1]) \o <<"-">>
                                   \o ToDecimal(r[2])]

InitStreams ==
    /\ Started
    /\ input \in ClientRanges \X ClientRanges
    /\ output = <<IdleConn, IdleConn>>

\* the request of client k arrives: serveVideo writes the head and opens
\* the stream of this request
Arrive(k) ==
    /\ output[k].st = "idle"
    /\ output' = [output EXCEPT ![k] = serveVideo(RangeRequest(input[k]), StreamDisk).conn]
    /\ UNCHANGED <<progVars, input>>

\* one read moving the position of every open stream, as if the streams
\* shared one file descriptor
ReadOn_SharedOffset(k) ==
    /\ output[k].st = "streaming"
    /\ LET c == readChunk(output[k], StreamDisk).conn
           n == Len(c.body) - Len(output[k].body)
           o == 3 - k
       IN  output' = [output EXCEPT
                         ![k] = c,
                         ![o] = IF @.stream = <<>> THEN @
                                ELSE [@ EXCEPT !.stream[1].pos = @ + n]]
    /\ UNCHANGED <<progVars, input>>

\* the stream of client k reads its next chunk
ReadOn(k) ==
    /\ output[k].st = "streaming"
    /\ output' = [output EXCEPT ![k] = readChunk(@, StreamDisk).conn]
    /\ UNCHANGED <<progVars, input>>

NextStreams == \E k \in 1..2 : Arrive(k) \/ ReadOn(k)

SpecStreams == InitStreams /\ [][NextStreams]_vars

\* ------------------------------------------------- clients that disconnect
\* Requests for /videos/v, one after the other; a client may go away while
\* its response is streamed.  output is [conn, paused]: the connection being
\* served, and the read streams that are open but piped to nothing.
WatchedRanges ==
    {<<>>} \cup {RangeRequest(r).range : r \in ClientRanges}

InitAbort ==
    /\ Started
    /\ input = <<>>
    /\ output = [conn |-> IdleConn, paused |-> <<>>]

\* a request arrives on a new connection
ArriveNext(range) ==
    /\ output.conn.st \in {"idle", "done", "closed"}
    /\ output' = [output EXCEPT !.conn =
           serveVideo([IdleConn EXCEPT !.kind = "request",
                                       !.url = VideoPrefix \o <<"v">>,
                                       !.route = "video", !.range = range],
                      StreamDisk).conn]
    /\ UNCHANGED <<progVars, input>>

\* the stream reads its next chunk; the read that reaches the end closes the
\* file (autoClose) and ends the response
ReadNext ==
    /\ output.conn.st = "streaming"
    /\ output' = [output EXCEPT !.conn = readChunk(@, StreamDisk).conn]
    /\ UNCHANGED <<progVars, input>>

\* The client's socket closes while the response is streamed: res emits
\* 'close', and the listener that pipe() put on the destination unpipes the
\* source.  The source is paused, not destroyed: serveVideo registers no
\* listener that would close it, so the stream keeps its file descriptor.
ClientDisconnects ==
    /\ output.conn.st = "streaming"
    /\ Len(output.paused) < MaxPaused
    /\ output' = [conn |-> [output.conn EXCEPT !.st = "closed", !.stream = <<>>],
                  paused |-> Append(output.paused, output.conn.stream[1])]
    /\ UNCHANGED <<progVars, input>>

NextAbort ==
    \/ \E r \in WatchedRanges : ArriveNext(r)
    \/ ReadNext
    \/ ClientDisconnects

SpecAbort == InitAbort /\ [][NextAbort]_vars

\* ------------------------------------------------- a file that is replaced
\* Requests for /videos/v while a re-encode replaces the file.  output is
\* [conn, disk, fd]: the connection being served, the disk as it is now, and
\* the file the read stream has opened (<<>> until it has: createReadStream
\* returns before the file is opened, the open happens on a later turn of
\* the event loop).
OldVideo == File(<<11, 12>>, 50)

NewVideo == File(<<21, 22, 23>>, 54)

Versions == {OldVideo, NewVideo}

VideoPath == VIDEOS_DIR \o <<<<"v">>>>

DiskOf(file) == [Disk EXCEPT ![VideoPath] = file]

InitReplace ==
    /\ Started
    /\ input = <<>>
    /\ output = [conn |-> IdleConn, disk |-> DiskOf(OldVideo), fd |-> <<>>]

\* a request arrives: serveVideo stats the file as it is now, writes the
\* head and creates the stream
ArriveDuring(range) ==
    /\ output.conn.st \in {"idle", "done"}
    /\ output' = [output EXCEPT
           !.conn = serveVideo([IdleConn EXCEPT !.kind = "request",
                                                !.url = VideoPrefix \o <<"v">>,
                                                !.route = "video",
                                                !.range = range],
                               output.disk).conn,
           !.fd = <<>>]
    /\ UNCHANGED <<progVars, input>>

\* the stream opens the file that is at the path now
OpenStream ==
    /\ output.conn.st = "streaming" /\ output.fd = <<>>
    /\ output' = [output EXCEPT !.fd = <<output.disk[VideoPath]>>]
    /\ UNCHANGED <<progVars, input>>

\* the stream reads its next chunk from the file it has opened
ReadDuring ==
    /\ output.conn.st = "streaming" /\ output.fd # <<>>
    /\ output' = [output EXCEPT
           !.conn = readChunk(@, DiskOf(output.fd[1])).conn,
           !.fd = IF readChunk(output.conn, DiskOf(output.fd[1])).conn.st = "done"
                  THEN <<>> ELSE @]
    /\ UNCHANGED <<progVars, input>>

\* the re-encode writes a new file and renames it over the path: a stream
\* that has opened the old file keeps reading the old file
ReplaceByRename(file) ==
    /\ output.disk[VideoPath] # file
    /\ output' = [output EXCEPT !.disk = DiskOf(file)]
    /\ UNCHANGED <<progVars, input>>

\* the re-encode writes over the file itself: a stream that has opened it
\* reads the new content
OverwriteInPlace(file) ==
    /\ output.disk[VideoPath] # file
    /\ output' = [output EXCEPT !.disk = DiskOf(file),
                                !.fd = IF @ = <<>> THEN @ ELSE <<file>>]
    /\ UNCHANGED <<progVars, input>>

NextReplace ==
    \/ \E r \in WatchedRanges : ArriveDuring(r)
    \/ OpenStream
    \/ ReadDuring
    \/ \E f \in Versions : ReplaceByRename(f)
    \/ \E f \in Versions : OverwriteInPlace(f)

SpecReplace == InitReplace /\ [][NextReplace]_vars

\* ------------------------------------------------------------------ claims
\* the request on the connection is for the video server
VideoRequest == conn.kind = "request" /\ StartsWith(conn.url, VideoPrefix)

\* its percent-decoded file name, and the path join resolves it to
ReqName == videoFilename(conn.url).s

ReqPath == join(VIDEOS_DIR, ReqName)

\* the request names a regular file of the media directory
NamesFile ==
    /\ VideoRequest
    /\ ~Includes(ReqName, <<".", ".">>) /\ ~Includes(ReqName, <<"/">>)
    /\ ReqPath \in DOMAIN fs /\ fs[ReqPath].type = "file"

\* C1: the listener is bound, and a request or an upgrade is dispatched to a
\* handler, only after a probe of /api/health was answered OK.
C1_ListenOnlyAfterOkProbe ==
    (listening \/ listenCalls > 0 \/ conn.kind # "none") => probes.ok

C1_Witness ==
    /\ listening /\ probes.ok
    /\ conn.kind = "request" /\ conn.route = "video" /\ conn.status = 200

\* C2 as stated: when all 30 probes have failed, the process exits with a
\* non-zero code and server.listen is never called.
C2_Original ==
    (probes.failed = MaxRetries /\ gw = "terminated")
        => (exitCode # <<0>> /\ listenCalls = 0)

\* C2 amended: when all 30 probes have failed, server.listen is never called;
\* once waitForBackend has returned the process has exited with code 1; the
\* only exit with code 0 is the shutdown by a signal handled during the last
\* sleep of the loop.
C2_Amended ==
    probes.failed = MaxRetries =>
        /\ listenCalls = 0 /\ ~listening
        /\ wfb.pc = "done" => (gw = "terminated" /\ exitCode = <<1>>)
        /\ gw = "terminated" => (exitCode = <<1>> \/ (exitCode = <<0>> /\ exitBy = "signal"))

C2_Witness ==
    /\ probes.failed = MaxRetries /\ ~probes.ok
    /\ gw = "terminated" /\ exitBy = "notReady" /\ exitCode = <<1>>

\* C3: the step that handles the backend's 'exit' event terminates the
\* gateway with a non-zero exit code and spawns nothing; once terminated, the
\* gateway handles no request, binds no listener and spawns no backend.
C3_BackendExitIsFatal ==
    /\ [][(backend.exitPending /\ ~backend'.exitPending)
            => (gw' = "terminated" /\ exitCode' = <<1>> /\ exitBy' = "backendExit"
                /\ ~listening' /\ spawned' = spawned)]_vars
    /\ [][gw = "terminated"
            => (gw' = "terminated" /\ UNCHANGED <<conn, spawned, listening, exitCode>>)]_vars

C3_Witness ==
    /\ gw = "terminated" /\ exitBy = "backendExit" /\ exitCode = <<1>>
    /\ listenCalls = 1 /\ backend.proc = "exited"

\* C4: a proxied /api/ request whose connection to the backend failed is
\* answered 502 with a JSON body that has an error field, and no such failure
\* ends the process, also when the response head was already written.
C4_ProxyErrorAnswered502 ==
    /\ exitBy # "ERR_HTTP_HEADERS_SENT"
    /\ (conn.kind = "request" /\ StartsWith(conn.url, ApiPrefix) /\ conn.proxyErrors > 0)
        => /\ conn.status = 502
           /\ \E k \in 1..Len(conn.json) : conn.json[k][1] = "error"
           /\ gw = "serving"

\* C5: no /videos/ request ends the process: whatever the URL and the Range
\* header, a failure while serving it stays with that request.
C5_VideoFailureStaysLocal ==
    exitBy \notin {"URIError", "ERR_OUT_OF_RANGE", "EISDIR", "ENOENT"}

\* C6: a /videos/ request whose decoded file name contains ".." or "/" is
\* answered 400, with no stat call and no file stream, whether or not the
\* path names something on disk.
C6_TraversalRejected ==
    (VideoRequest /\ (Includes(ReqName, <<".", ".">>) \/ Includes(ReqName, <<"/">>)))
        => /\ conn.status = 400 /\ conn.st = "done"
           /\ conn.statPath = <<>> /\ conn.stream = <<>> /\ conn.body = <<>>

C6_Witness ==
    /\ VideoRequest /\ Includes(ReqName, <<"/">>)
    /\ ReqPath \in DOMAIN fs /\ fs[ReqPath].type = "file"
    /\ conn.status = 400

\* C7 as stated: a /videos/ request whose file name has nothing on disk is
\* answered 404.
C7_Original ==
    (VideoRequest /\ ReqPath \notin DOMAIN fs) => conn.status = 404

\* C7 amended: a /videos/ request whose decoded file name contains neither
\* ".." nor "/" and whose path has nothing on disk is answered 404, with no
\* file stream, no body bytes and no cache headers.
C7_Amended ==
    (/\ VideoRequest
     /\ ~Includes(ReqName, <<".", ".">>) /\ ~Includes(ReqName, <<"/">>)
     /\ ReqPath \notin DOMAIN fs)
        => /\ conn.status = 404 /\ conn.st = "done"
           /\ conn.stream = <<>> /\ conn.body = <<>>
           /\ conn.hdrs = NoHeaders

C7_Witness ==
    /\ VideoRequest /\ ReqPath \notin DOMAIN fs
    /\ conn.status = 404 /\ conn.statPath = <<ReqPath>>

\* C8: a /videos/ request without a Range header that names an existing file
\* (no "/" and no ".." in the name) is answered 200 with Content-Length equal
\* to the file's size and without Content-Range.
C8_FullResponse ==
    (NamesFile /\ conn.range = <<>>)
        => /\ conn.status = 200
           /\ conn.hdrs.contentLength = <<Num(fs[ReqPath].size)>>
           /\ conn.hdrs.contentRange = <<>>

C8_Witness ==
    /\ NamesFile /\ conn.range = <<>>
    /\ fs[ReqPath].size > 1
    /\ conn.st = "done" /\ conn.body = fs[ReqPath].bytes

\* the Range header bytes=A-B
BytesRange(a, b) == <<"bytes=">> \o ToDecimal(a) \o <<"-">> \o ToDecimal(b)

\* C9: a Range header bytes=A-B with 0 <= A <= B < size on an existing file
\* is answered 206 with Content-Range "bytes A-B/size" and Content-Length
\* B-A+1, and the body, once complete, is the bytes A..B of the file.
C9_PartialResponse ==
    \A a, b \in 0..MaxByte :
        (NamesFile /\ conn.range = BytesRange(a, b) /\ a <= b /\ b < fs[ReqPath].size)
            => /\ conn.status = 206
               /\ conn.hdrs.contentRange =
                    <<"bytes", " ">> \o ToDecimal(a) \o <<"-">> \o ToDecimal(b)
                        \o <<"/">> \o ToDecimal(fs[ReqPath].size)
               /\ conn.hdrs.contentLength = <<Num(b - a + 1)>>
               /\ conn.st \in {"streaming", "done"}
               /\ conn.st = "done" => conn.body = SubSeq(fs[ReqPath].bytes, a + 1, b + 1)
               /\ conn.st = "streaming"
                    => /\ Len(conn.body) < b - a + 1
                       /\ conn.body = SubSeq(fs[ReqPath].bytes, a + 1, a + Len(conn.body))

C9_Witness ==
    /\ NamesFile /\ conn.range = BytesRange(0, 1)
    /\ conn.status = 206 /\ conn.st = "done"
    /\ Len(conn.body) = 2

\* C10: an upgrade request for any URL other than exactly /ws has its socket
\* destroyed, with nothing written on it and nothing forwarded to the
\* backend; an upgrade request for /ws is handed to the backend proxy.
C10_UpgradeOnlyWs ==
    conn.kind = "upgrade" =>
        IF conn.url = <<"/", "ws">>
        THEN conn.route = "ws" /\ conn.st \in {"proxying", "ended"}
        ELSE /\ conn.route = "destroy" /\ conn.st = "destroyed"
             /\ ~conn.sent /\ conn.status = 0
             /\ conn.text = "" /\ conn.json = <<>> /\ conn.body = <<>>

C10_Witness ==
    /\ conn.kind = "upgrade" /\ conn.url = <<"/", "ws", "?", "v">>
    /\ conn.st = "destroyed"

\* C11: the ETag is a function of the file's modification time and size
\* only, and an injective one.  Two responses for the same file name carry
\* the same ETag if and only if statSync returned the same modification time
\* and the same size for both, whatever the Range headers; the ETag is the
\* quoted pair of the two numbers in base 36.
C11_ETagInjective ==
    output # <<>> =>
        /\ \A k \in 1..2 :
              /\ output[k].status = (IF input[k].range = <<>> THEN 200 ELSE 206)
              /\ output[k].hdrs.etag # <<>>
        /\ (output[1].hdrs.etag = output[2].hdrs.etag)
              <=> (input[1].stat = input[2].stat)

C11_Witness ==
    /\ output # <<>>
    /\ input[1].stat.mtimeMs = 1 /\ input[2].stat.mtimeMs = 37
    /\ input[1].stat.size = 36 /\ input[2].stat.size = 0
    /\ output[1].hdrs.etag = <<"\"", "1", "-", "1", "0", "\"">>
    /\ output[2].hdrs.etag = <<"\"", "1", "1", "-", "0", "\"">>

\* C12: a SIGINT or SIGTERM can be handled in every state in which the
\* gateway runs, waiting or serving; once the backend has been sent its
\* SIGTERM the gateway has exited with code 0, and it stays so when the
\* backend exits on that signal.
C12_SignalExitsZero ==
    /\ gw # "terminated" => ENABLED shutdown
    /\ backend.signalled
        => (gw = "terminated" /\ exitCode = <<0>> /\ exitBy = "signal")

C12_Witness ==
    /\ exitBy = "signal" /\ exitCode = <<0>> /\ listenCalls = 1
    /\ backend.signalled /\ backend.proc = "exited" /\ backend.exitPending

\* the port written after "http://127.0.0.1:" in the proxy target
TargetPort == SubSeq(output.target, 2, Len(output.target))

\* C13: for every gateway port P given in PORT the backend is spawned with
\* REELSCRIPT_PORT = P + 1000, and the proxy target and the probed URL are
\* http://127.0.0.1:(P+1000); without PORT that is 5005; and whatever PORT
\* holds, the three uses name the same port.
C13_BackendPortIsPortPlus1000 ==
    output # <<>> =>
        /\ \A P \in Ports :
              input.PORT = <<ToDecimal(P)>>
                  => output.spawnEnv.REELSCRIPT_PORT = <<ToDecimal(P + 1000)>>
        /\ input.PORT = <<>>
              => output.spawnEnv.REELSCRIPT_PORT = <<<<"5", "0", "0", "5">>>>
        /\ Head(output.target) = "http://127.0.0.1:"
        /\ output.spawnEnv.REELSCRIPT_PORT = <<TargetPort>>
        /\ output.probed # <<>>
              => output.probed[1] = output.target \o <<"/", "api", "/", "health">>

C13_Witness ==
    /\ output # <<>>
    /\ input.PORT = <<<<"8", "0", "8", "0">>>> /\ input.REELSCRIPT_PORT # <<>>
    /\ output.spawnEnv.REELSCRIPT_PORT = <<<<"9", "0", "8", "0">>>>
    /\ output.probed =
         <<<<"http://127.0.0.1:", "9", "0", "8", "0", "/", "api", "/", "health">>>>

\* C14: the backend is spawned once, when the gateway starts, and never
\* again: no step spawns a process, and a backend that has exited never runs
\* again, whatever probes, proxy errors, backend exits and signals occur.
C14_SpawnedOnce ==
    /\ spawned = 1
    /\ [][/\ spawned' = spawned
          /\ backend.proc = "exited" => backend'.proc = "exited"]_vars

C14_Witness ==
    /\ spawned = 1 /\ gw = "serving"
    /\ backend.proc = "exited" /\ backend.exitPending
    /\ conn.route = "proxy" /\ conn.status = 502

\* C15: a request is handled by exactly one of the video server, the backend
\* proxy and the app-shell handler: by the video server if and only if its
\* URL starts with /videos/, else by the proxy if and only if it starts with
\* /api/, else by the app-shell handler.  /videos/api/v is never proxied,
\* /videos and /api go to the app-shell handler, and a handler that was not
\* chosen leaves no trace on the response.
C15_OneHandlerByPrefix ==
    conn.kind = "request" =>
        /\ conn.route \in {"video", "proxy", "app"}
        /\ conn.route = "video" <=> StartsWith(conn.url, <<"/", "videos", "/">>)
        /\ conn.route = "proxy"
              <=> (/\ ~StartsWith(conn.url, <<"/", "videos", "/">>)
                   /\ StartsWith(conn.url, <<"/", "api", "/">>))
        /\ conn.url = <<"/", "videos", "/", "api", "/", "v">> => conn.route = "video"
        /\ conn.url \in {<<"/", "videos">>, <<"/", "api">>} => conn.route = "app"
        /\ conn.route # "video"
              => /\ conn.statPath = <<>> /\ conn.stream = <<>> /\ conn.body = <<>>
                 /\ conn.text = "" /\ conn.hdrs.etag = <<>>
        /\ conn.route # "proxy"
              => conn.st # "proxying" /\ conn.proxyErrors = 0 /\ conn.json = <<>>
        /\ conn.route = "app" => conn.status = 200 /\ conn.st = "done"
        /\ conn.route = "proxy" => conn.status \in {0, 200, 500, 502}
        /\ conn.route = "video" => conn.status \in {400, 404, 200, 206}

C15_Witness ==
    /\ conn.kind = "request"
    /\ conn.url = <<"/", "videos", "/", "api", "/", "v">>
    /\ conn.route = "video" /\ conn.status = 400 /\ conn.proxyErrors = 0

\* C16: the gateway is ready, and serving, only after /api/health was
\* answered with status 200: no other status, 204 included, and no failed
\* connection moves it to serving.
C16_ReadyOnlyOn200 ==
    (probes.ok \/ gw = "serving" \/ listening \/ listenCalls > 0)
        => probes.status = 200

\* a path made of the media directory's path and exactly one more segment
DirectChild(path) ==
    /\ Len(path) = Len(VIDEOS_DIR) + 1
    /\ SubSeq(path, 1, Len(VIDEOS_DIR)) = VIDEOS_DIR

\* C17: the path a /videos/ request has stat'ed, and the path it streams, is
\* a direct child of the media directory: never the directory itself, never
\* a path below a subdirectory, never a path outside.
C17_OnlyDirectChildren ==
    VideoRequest =>
        /\ conn.statPath # <<>> => DirectChild(conn.statPath[1])
        /\ conn.stream # <<>> => DirectChild(conn.stream[1].path)

CacheFields(hdrs) ==
    <<hdrs.contentType, hdrs.acceptRanges, hdrs.etag, hdrs.cacheControl>>

\* the head the same URL gets when it is requested without a Range header
HeadWithoutRange == serveVideo([conn EXCEPT !.range = <<>>], fs).conn

\* C19: every 200 and every 206 response of the video server carries
\* Accept-Ranges: bytes, Cache-Control: public, max-age=3600 and an ETag, and
\* these three and Content-Type are what the same file gets answered without
\* a Range header.
C19_CacheHeadersAlways ==
    (VideoRequest /\ conn.status \in {200, 206})
        => /\ conn.hdrs.acceptRanges = "bytes"
           /\ conn.hdrs.cacheControl = "public, max-age=3600"
           /\ conn.hdrs.etag # <<>>
           /\ conn.hdrs.contentType # ""
           /\ HeadWithoutRange.status = 200
           /\ CacheFields(conn.hdrs) = CacheFields(HeadWithoutRange.hdrs)

C19_Witness ==
    /\ VideoRequest /\ conn.status = 206 /\ conn.range = BytesRange(1, 1)
    /\ conn.hdrs.etag = <<"\"", "1", "e", "-", "2", "\"">>
    /\ conn.hdrs.acceptRanges = "bytes"
    /\ conn.st = "done" /\ conn.body = <<12>>

\* the name ends in "." and e, after a stem that is not empty
HasExtension(name, e) ==
    Len(name) >= 3 /\ SubSeq(name, Len(name) - 1, Len(name)) = <<".", e>>

\* C20: the Content-Type of a 200 response follows from the extension of the
\* file name alone: video/mp4 for .mp4, video/webm for .webm, audio/mpeg for
\* .mp3, and application/octet-stream for every other name: no extension,
\* another extension, or .MP4 in upper case.
C20_ContentTypeByExtension ==
    (output # <<>> /\ output[1].status = 200) =>
        output[1].hdrs.contentType =
            (IF HasExtension(input, "mp4") THEN "video/mp4"
             ELSE IF HasExtension(input, "webm") THEN "video/webm"
             ELSE IF HasExtension(input, "mp3") THEN "audio/mpeg"
             ELSE "application/octet-stream")

C20_Witness ==
    /\ output # <<>> /\ output[1].status = 200
    /\ input = <<"v", ".", "MP4">>
    /\ output[1].hdrs.contentType = "application/octet-stream"

\* C21: waitForBackend sends at most 30 probes, none after a probe was
\* answered OK, and has returned true if and only if a probe was answered OK;
\* and it always returns: whatever the backend does, the gateway eventually
\* leaves the waiting state, to serving or to terminated.
C21_BoundedRetry ==
    /\ [](/\ wfb.i < MaxRetries /\ probes.failed <= MaxRetries
          /\ wfb.pc \in {"fetch", "sleep"} => probes.failed = wfb.i + (IF wfb.pc = "sleep" THEN 1 ELSE 0)
          /\ probes.ok => (wfb.pc = "done" /\ listenCalls = 1)
          /\ wfb.pc = "done" => (listenCalls = 1 <=> probes.ok)
          /\ (wfb.pc = "done" /\ ~probes.ok) => probes.failed = MaxRetries)
    /\ <>(gw # "waiting")

C21_Witness ==
    /\ wfb.pc = "done" /\ ~probes.ok /\ probes.failed = MaxRetries
    /\ gw = "terminated" /\ exitBy = "notReady" /\ backend.up

\* C22: shutdown() calls backend.kill('SIGTERM'), server.close() and
\* process.exit(0) in this order and within one step, which takes the gateway
\* from running to terminated with the backend signalled, the listener
\* closed and exit code 0; a terminated gateway dispatches no request and
\* opens no listener, so a signal handled while waiting for readiness leaves
\* the listener never opened.
C22_ShutdownInOrder ==
    /\ [](/\ calls \in {<<>>, <<"backend.kill", "server.close", "process.exit">>}
          /\ calls # <<>> => (gw = "terminated" /\ backend.signalled /\ ~listening)
          /\ (calls # <<>> /\ ~probes.ok) => listenCalls = 0)
    /\ [][calls' # calls
            => (/\ calls = <<>> /\ gw # "terminated" /\ ~backend.signalled
                /\ gw' = "terminated" /\ exitCode' = <<0>> /\ backend'.signalled
                /\ ~listening' /\ listenCalls' = listenCalls)]_vars
    /\ [][gw = "terminated"
            => UNCHANGED <<gw, conn, listening, listenCalls, calls>>]_vars

C22_Witness ==
    /\ calls = <<"backend.kill", "server.close", "process.exit">>
    /\ wfb.pc = "sleep" /\ wfb.i > 0 /\ listenCalls = 0 /\ backend.up

\* C23: a Range header bytes=A- with 0 <= A < size on an existing file is
\* answered 206 with Content-Range "bytes A-(size-1)/size" and
\* Content-Length size-A, and the body, once complete, is the file from
\* offset A to its end.
C23_OpenEndedRange ==
    \A a \in 0..MaxByte :
        (/\ NamesFile
         /\ conn.range = <<"bytes=">> \o ToDecimal(a) \o <<"-">>
         /\ a < fs[ReqPath].size)
            => /\ conn.status = 206
               /\ conn.hdrs.contentRange =
                    <<"bytes", " ">> \o ToDecimal(a) \o <<"-">>
                        \o ToDecimal(fs[ReqPath].size - 1)
                        \o <<"/">> \o ToDecimal(fs[ReqPath].size)
               /\ conn.hdrs.contentLength = <<Num(fs[ReqPath].size - a)>>
               /\ conn.st \in {"streaming", "done"}
               /\ conn.st = "done"
                    => conn.body = SubSeq(fs[ReqPath].bytes, a + 1, fs[ReqPath].size)

C23_Witness ==
    /\ NamesFile /\ conn.range = <<"bytes=", "1", "-">>
    /\ conn.status = 206 /\ conn.st = "done" /\ conn.body = <<12>>
    /\ conn.hdrs.contentRange = <<"bytes", " ", "1", "-", "1", "/", "2">>

\* C24: of two Range requests for the same file that are served at the same
\* time, each gets the bytes of its own range, in order and complete,
\* wherever the stream of the other one stands: what a client has received
\* is always the start of its own range, and its stream stands right behind
\* it.
C24_IndependentStreams ==
    \A k \in 1..2 :
        LET c == output[k]
            a == input[k][1]
            b == input[k][2]
        IN  c.st # "idle" =>
                /\ c.status = 206
                /\ c.hdrs.contentLength = <<Num(b - a + 1)>>
                /\ Len(c.body) <= b - a + 1
                /\ c.body = SubSeq(StreamedBytes, a + 1, a + Len(c.body))
                /\ c.st = "streaming"
                     => (Len(c.body) <= b - a /\ c.stream[1].pos = a + Len(c.body))
                /\ c.st # "streaming"
                     => (c.st = "done" /\ c.body = SubSeq(StreamedBytes, a + 1, b + 1))

C24_Witness ==
    /\ input = <<<<0, 2>>, <<1, 2>>>>
    /\ output[1].st = "streaming" /\ output[1].body = <<11, 12>>
    /\ output[2].st = "streaming" /\ output[2].body = <<12>>

\* C25: once the disconnect of a client has been handled, the read stream of
\* its response is closed and its file handle released: no stream stays
\* open without a response to write to, however many clients disconnect.
C25_NoStreamLeftOpen ==
    output.paused = <<>>


\* C26: when proxying a /ws upgrade fails (the backend is unreachable or the
\* upstream connection errors), the client socket is ended, nothing is written
\* on it (no status, no body, no JSON error payload), the failure is handled
\* once with no retry, and the gateway keeps serving.
C26_UpgradeFailureClosesSocket ==
    /\ [][(conn.kind = "upgrade" /\ conn.st = "proxying"
           /\ conn'.proxyErrors > conn.proxyErrors)
          => /\ conn'.st = "ended"
             /\ conn'.proxyErrors = 1
             /\ ~conn'.sent /\ conn'.status = 0
             /\ conn'.json = <<>> /\ conn'.body = <<>> /\ conn'.text = ""
             /\ conn'.hdrs = NoHeaders
             /\ gw' = "serving" /\ listening'
             /\ backend' = backend /\ probes' = probes /\ wfb' = wfb]_vars
    /\ [][(conn.kind = "upgrade" /\ conn.st = "ended")
          => (conn' = conn \/ conn' = IdleConn)]_vars

C26_Witness ==
    /\ conn.kind = "upgrade" /\ conn.route = "ws" /\ conn.st = "ended"
    /\ conn.proxyErrors = 1 /\ ~conn.sent
    /\ gw = "serving" /\ listening


\* C27: whenever the gateway process has terminated (signal shutdown, backend
\* exit, readiness budget exhausted), the backend subprocess has already
\* exited or has been sent a termination signal by the gateway: the gateway
\* never exits leaving a backend that is still running and was never
\* signalled.
C27_NoOrphanedBackend ==
    (gw = "terminated" /\ exitBy \in {"signal", "backendExit", "notReady"})
        => (backend.proc = "exited" \/ backend.signalled)


\* C28: whatever the Range header (end >= size, start > end, start >= size,
\* non-numeric parts, ...), every 206 response of the video server carries in
\* Content-Range integer bounds with 0 <= start <= end < size, declares
\* Content-Length = end - start + 1, and streams exactly that many body
\* bytes.
C28_PartialBoundsValid ==
    (conn.kind = "request" /\ conn.route = "video" /\ conn.status = 206)
        => LET size == fs[conn.statPath[1]].size
           IN  \E start, end \in 0..(size - 1) :
                   /\ start <= end
                   /\ conn.hdrs.contentRange
                          = contentRangeOf(Num(start), Num(end), Num(size))
                   /\ conn.hdrs.contentLength = <<Num(end - start + 1)>>
                   /\ Len(conn.body) <= end - start + 1
                   /\ conn.st = "done" => Len(conn.body) = end - start + 1


\* C29: when the file is replaced (size and modification time change) at any
\* point between the stat call and the end of streaming, the response is
\* still of one file version: the ETag, the Content-Length and the size in
\* Content-Range that were sent, and the body bytes streamed, all describe
\* the same version of the file.
C29_ResponseOfOneVersion ==
    LET c == output.conn
        first == IF c.range = <<>> THEN 0 ELSE rangeStart(c.range).n
    IN  c.status \in {200, 206}
            => \E ver \in Versions :
                   /\ c.hdrs.etag = etagOf(ver)
                   /\ c.status = 200 => c.hdrs.contentLength = <<Num(ver.size)>>
                   /\ c.status = 206 =>
                          c.hdrs.contentRange
                              = contentRangeOf(rangeStart(c.range),
                                               rangeEnd(c.range, ver.size),
                                               Num(ver.size))
                   /\ \A i \in 1..Len(c.body) :
                          /\ first + i <= ver.size
                          /\ c.body[i] = ver.bytes[first + i]


\* C30: for every gateway port P in 1..65535 given in PORT, and for the
\* default when PORT is not set, the backend port P + 1000 the gateway
\* configures is a valid TCP port in 1..65535 and differs from P; and
\* whatever PORT holds, parsable or not, the backend port is an integer.
C30_BackendPortValid ==
    output # <<>> =>
        LET port == BACKEND_PORT(input)
        IN  /\ output.spawnEnv.REELSCRIPT_PORT = <<NumToString(port)>>
            /\ ~port.nan
            /\ \A P \in Ports \cap (1..65535) :
                  input.PORT = <<ToDecimal(P)>>
                      => port.n \in 1..65535 /\ port.n # P
            /\ input.PORT = <<>> => port.n \in 1..65535

====
